---- MODULE Spec2Model ----
(***************************************************************************)
(* Model of the vehicle signal shadow store: SignalStore and CarlaClient    *)
(* (src/carla_client.py) and the SignalServiceServicer RPC handlers         *)
(* (src/signal_service.py).                                                 *)
(*                                                                          *)
(* Python objects are modelled by reference: heap maps an object id to the  *)
(* Signal message it holds, and the store's dictionary and the subscriber   *)
(* queues hold object ids, because the handlers mutate the stored message   *)
(* in place and enqueue the very same object.                               *)
(***************************************************************************)
EXTENDS Integers, Sequences, FiniteSets, TLC

VARIABLES
    signals,      \* SignalStore.signals: path -> object id of the Signal
    heap,         \* object id -> Signal message [path, state, config]
    locks,        \* SignalStore.locks: path -> token
    subscribers,  \* SignalStore.subscribers: path -> set of queue ids
    queues,       \* asyncio.Queue objects: queue id -> sequence of object ids
    sent,         \* history: queue id -> what each entry of the queue held when it was put
    streams,      \* Subscribe coroutines: stream id -> control state
    nextToken,    \* number of uuid4 tokens generated so far
    issued,       \* tokens returned to a client by a Lock response
    produced,     \* number of producer updates applied so far
    last          \* the last call made: operation, request and response

vars == <<signals, heap, locks, subscribers, queues, sent, streams, nextToken, issued,
          produced, last>>

----------------------------------------------------------------------------
(* Bounds of the model *)

MaxTokens == 2      \* Lock RPCs served (one uuid4 token each)
MaxLockPaths == 2   \* longest path list of a Lock request
MaxSetItems == 1    \* longest item list of a Set request
MaxGetPaths == 1    \* longest path list of a Get or Unsubscribe request
MaxSubPaths == 1    \* longest path list of a Subscribe request
MaxQueueLen == 1    \* most unread updates held by one queue
MaxStreams == 1     \* Subscribe streams opened
MaxProduced == 1    \* producer updates applied

(* request.token == '' *)
EmptyToken == 0

Tokens == 1..MaxTokens
ReqTokens == 0..MaxTokens

None == "None"

----------------------------------------------------------------------------
(* Paths *)

RegisteredPaths ==
    { "Vehicle.Speed", "Vehicle.Engine.RPM", "Vehicle.Battery.Voltage",
      "Vehicle.Doors.FrontLeft", "Vehicle.Lights.Headlights",
      "Vehicle.Temperature.Engine", "Vehicle.Position.X", "Vehicle.Position.Y",
      "Vehicle.Position.Z", "Vehicle.Orientation.Yaw" }

UnknownPath == "Vehicle.Unknown"

(* the paths that requests of the model name: a registered and an unregistered one *)
ReqPaths == { "Vehicle.Speed", UnknownPath }

AllPaths == RegisteredPaths \cup {UnknownPath}

----------------------------------------------------------------------------
(* Finite maps (Python dict) *)

Put(f, k, v) == [x \in (DOMAIN f) \cup {k} |-> IF x = k THEN v ELSE f[x]]

Del(f, k) == [x \in (DOMAIN f) \ {k} |-> f[x]]

EmptyMap == [x \in {} |-> 0]

(* sequences over S of length 0..n *)
SeqsUpTo(S, n) == UNION { [1..k -> S] : k \in 0..n }

----------------------------------------------------------------------------
(* Data model: types_pb2.Value, signal_pb2.State, Config and Signal.        *)
(* Floats are modelled by integers; a bool payload by 0 (False) / 1 (True). *)

Value(kind, v) == [kind |-> kind, v |-> v]

(* a Value message with no member of the oneof set *)
UnsetValue == Value("unset", 0)

State(value, capability, availability) ==
    [value |-> value, capability |-> capability, availability |-> availability]

(* isinstance(x, cls) for the defaults passed to _create_signal: bool is a
   subclass of int in Python *)
IsInstance(pytype, cls) ==
    \/ pytype = cls
    \/ pytype = "bool" /\ cls = "int"

(* the paths that contain the word tested by `word in path` *)
PathsContaining(word) ==
    CASE word = "Speed"       -> {"Vehicle.Speed"}
      [] word = "RPM"         -> {"Vehicle.Engine.RPM"}
      [] word = "Voltage"     -> {"Vehicle.Battery.Voltage"}
      [] word = "Temperature" -> {"Vehicle.Temperature.Engine"}
      [] word = "Position"    -> {"Vehicle.Position.X", "Vehicle.Position.Y",
                                  "Vehicle.Position.Z"}
      [] word = "Orientation" -> {"Vehicle.Orientation.Yaw"}
      [] OTHER                -> {}

UnitOf(path) ==
    IF path \in PathsContaining("Speed") THEN "km/h"
    ELSE IF path \in PathsContaining("RPM") THEN "RPM"
    ELSE IF path \in PathsContaining("Voltage") THEN "V"
    ELSE IF path \in PathsContaining("Temperature") THEN "degC"
    ELSE IF path \in PathsContaining("Position") THEN "m"
    ELSE IF path \in PathsContaining("Orientation") THEN "degrees"
    ELSE ""

(* CarlaClient._create_signal *)
create_signal(path, leaf_type, data_type, pytype, default_value) ==
    LET value ==
            IF IsInstance(pytype, "float") THEN Value("float_value", default_value)
            ELSE IF IsInstance(pytype, "int") THEN
                IF data_type = "TYPE_UINT32"
                THEN Value("uint32_value", default_value)
                ELSE Value("int32_value", default_value)
            ELSE IF IsInstance(pytype, "bool") THEN Value("bool_value", default_value)
            ELSE UnsetValue
    IN  [ path   |-> path,
          state  |-> State(value, TRUE, TRUE),
          config |-> [ leaf_type   |-> leaf_type,
                       data_type   |-> data_type,
                       description |-> <<"CARLA signal for ", path>>,
                       end_point   |-> path,
                       unit        |-> UnitOf(path) ] ]

(* the dictionary carla_signals of CarlaClient._initialize_carla_signals *)
carla_signals ==
    [ p \in RegisteredPaths |->
        CASE p = "Vehicle.Speed" ->
               create_signal(p, "LEAF_TYPE_SENSOR", "TYPE_FLOAT", "float", 0)
          [] p = "Vehicle.Engine.RPM" ->
               create_signal(p, "LEAF_TYPE_SENSOR", "TYPE_UINT32", "int", 0)
          [] p = "Vehicle.Battery.Voltage" ->
               create_signal(p, "LEAF_TYPE_SENSOR", "TYPE_FLOAT", "float", 12)
          [] p = "Vehicle.Doors.FrontLeft" ->
               create_signal(p, "LEAF_TYPE_ACTUATOR", "TYPE_BOOL", "bool", 0)
          [] p = "Vehicle.Lights.Headlights" ->
               create_signal(p, "LEAF_TYPE_ACTUATOR", "TYPE_BOOL", "bool", 0)
          [] p = "Vehicle.Temperature.Engine" ->
               create_signal(p, "LEAF_TYPE_SENSOR", "TYPE_FLOAT", "float", 85)
          [] OTHER ->
               create_signal(p, "LEAF_TYPE_SENSOR", "TYPE_FLOAT", "float", 0) ]

----------------------------------------------------------------------------
(* SignalStore.  A store is the record of its three dictionaries together   *)
(* with the heap of Signal objects and the queue objects they refer to.     *)
(* The field sent is history, not program state: for every queue, the       *)
(* contents each of its entries had at the moment it was put on the queue.  *)

Store(sig, hp, lk, subs, qs, snt) ==
    [signals |-> sig, heap |-> hp, locks |-> lk, subscribers |-> subs, queues |-> qs,
     sent |-> snt]

(* SignalStore.get_signal: self.signals.get(path) *)
get_signal(s, path) ==
    IF path \in DOMAIN s.signals THEN s.signals[path] ELSE None

(* _notify_subscribers that iterates over every queue of the registry, not
   only over those of the path *)
notify_every_path(s, path, obj) ==
    LET all == UNION {s.subscribers[p] : p \in DOMAIN s.subscribers}
    IN  [s EXCEPT !.queues =
            [q \in DOMAIN s.queues |->
                IF q \in all THEN Append(s.queues[q], obj) ELSE s.queues[q]],
                  !.sent =
            [q \in DOMAIN s.sent |->
                IF q \in all THEN Append(s.sent[q], s.heap[obj]) ELSE s.sent[q]]]

(* _notify_subscribers over queues made with asyncio.Queue(maxsize=1) and the
   try statement around the whole loop: a queue that still holds an unread
   update raises QueueFull and the queues after it are not served *)
notify_stops_at_full_queue(s, path, obj) ==
    IF path \in DOMAIN s.subscribers
       /\ \A q \in s.subscribers[path] : s.queues[q] = <<>>
    THEN [s EXCEPT !.queues =
            [q \in DOMAIN s.queues |->
                IF q \in s.subscribers[path]
                THEN Append(s.queues[q], obj) ELSE s.queues[q]],
                   !.sent =
            [q \in DOMAIN s.sent |->
                IF q \in s.subscribers[path]
                THEN Append(s.sent[q], s.heap[obj]) ELSE s.sent[q]]]
    ELSE s

(* SignalStore._notify_subscribers: put_nowait on every queue registered on
   path; the queues are unbounded, QueueFull is never raised *)
notify_subscribers(s, path, obj) ==
    IF path \in DOMAIN s.subscribers
    THEN [s EXCEPT !.queues =
            [q \in DOMAIN s.queues |->
                IF q \in s.subscribers[path]
                THEN Append(s.queues[q], obj) ELSE s.queues[q]],
                   !.sent =
            [q \in DOMAIN s.sent |->
                IF q \in s.subscribers[path]
                THEN Append(s.sent[q], s.heap[obj]) ELSE s.sent[q]]]
    ELSE s

(* set_signal that ignores a path that has no signal yet *)
set_signal_existing_only(s, path, obj) ==
    IF path \in DOMAIN s.signals
    THEN notify_subscribers([s EXCEPT !.signals = Put(s.signals, path, obj)], path, obj)
    ELSE s

(* SignalStore.set_signal *)
set_signal(s, path, obj) ==
    notify_subscribers([s EXCEPT !.signals = Put(s.signals, path, obj)], path, obj)

(* SignalStore.is_locked *)
is_locked(s, path) == path \in DOMAIN s.locks

(* lock_signal that answers False on a locked path but still stores the
   caller's token *)
lock_signal_overwrites(s, path, token) ==
    IF path \in DOMAIN s.locks
    THEN [ret |-> FALSE, s |-> [s EXCEPT !.locks = Put(s.locks, path, token)]]
    ELSE [ret |-> TRUE, s |-> [s EXCEPT !.locks = Put(s.locks, path, token)]]

(* lock_signal that reports True for a path that is already locked and
   leaves the lock with its holder *)
lock_signal_shared(s, path, token) ==
    IF path \in DOMAIN s.locks
    THEN [ret |-> TRUE, s |-> s]
    ELSE [ret |-> TRUE, s |-> [s EXCEPT !.locks = Put(s.locks, path, token)]]

(* SignalStore.lock_signal: the returned bool and the store afterwards *)
lock_signal(s, path, token) ==
    IF path \in DOMAIN s.locks
    THEN [ret |-> FALSE, s |-> s]
    ELSE [ret |-> TRUE, s |-> [s EXCEPT !.locks = Put(s.locks, path, token)]]

(* unlock_signal without the comparison of the token *)
unlock_signal_any_token(s, path, token) ==
    IF path \notin DOMAIN s.locks
    THEN [ret |-> FALSE, s |-> s]
    ELSE [ret |-> TRUE, s |-> [s EXCEPT !.locks = Del(s.locks, path)]]

(* SignalStore.unlock_signal *)
unlock_signal(s, path, token) ==
    IF path \notin DOMAIN s.locks \/ s.locks[path] # token
    THEN [ret |-> FALSE, s |-> s]
    ELSE [ret |-> TRUE, s |-> [s EXCEPT !.locks = Del(s.locks, path)]]

(* SignalStore.add_subscriber *)
add_subscriber(s, path, q) ==
    LET subs == IF path \notin DOMAIN s.subscribers
                THEN Put(s.subscribers, path, {}) ELSE s.subscribers
    IN  [s EXCEPT !.subscribers = [subs EXCEPT ![path] = @ \cup {q}]]

(* remove_subscriber that deletes the entry of the path with all its queues *)
remove_subscriber_drops_path(s, path, q) ==
    IF path \in DOMAIN s.subscribers
    THEN [s EXCEPT !.subscribers = Del(s.subscribers, path)]
    ELSE s

(* SignalStore.remove_subscriber *)
remove_subscriber(s, path, q) ==
    IF path \in DOMAIN s.subscribers
    THEN LET subs == [s.subscribers EXCEPT ![path] = @ \ {q}]
         IN  IF subs[path] = {}
             THEN [s EXCEPT !.subscribers = Del(subs, path)]
             ELSE [s EXCEPT !.subscribers = subs]
    ELSE s

----------------------------------------------------------------------------
(* SignalServiceServicer: the unary handlers.  None of them awaits, so each *)
(* runs to completion as one step of the event loop.  Each operator gives   *)
(* the store after the handler and the response it returns.                 *)

LockedMessage == "Signal is locked by another client"
NotFoundMessage == "Signal not found"

SetResult(path, success, error_message) ==
    [path |-> path, success |-> success, error_message |-> error_message]

(* SetItem that stores a new Signal when the path has none (an upsert) *)
SetItemCreatesSignal(s, token, item) ==
    IF is_locked(s, item.path) /\ (token = EmptyToken \/ s.locks[item.path] # token)
    THEN [s |-> s, result |-> SetResult(item.path, FALSE, LockedMessage)]
    ELSE LET current_signal == get_signal(s, item.path)
             obj == IF current_signal # None THEN current_signal ELSE item.path
             hp == IF current_signal # None THEN s.heap
                   ELSE Put(s.heap, obj, [path |-> item.path, state |-> item.state,
                                          config |-> [leaf_type |-> "", data_type |-> "",
                                                      description |-> <<>>, end_point |-> "",
                                                      unit |-> ""]])
         IN  [ s |-> set_signal([s EXCEPT !.heap = [hp EXCEPT ![obj].state = item.state]],
                                item.path, obj),
               result |-> SetResult(item.path, TRUE, "") ]

(* SetItem with the lock test written `if token and locks.get(path) != token`:
   a request without a token is not stopped by a lock *)
SetItemEmptyTokenPasses(s, token, item) ==
    IF is_locked(s, item.path) /\ token # EmptyToken /\ s.locks[item.path] # token
    THEN [s |-> s, result |-> SetResult(item.path, FALSE, LockedMessage)]
    ELSE LET current_signal == get_signal(s, item.path)
         IN  IF current_signal # None
             THEN [ s |-> set_signal(
                             [s EXCEPT !.heap = [@ EXCEPT ![current_signal].state = item.state]],
                             item.path, current_signal),
                    result |-> SetResult(item.path, TRUE, "") ]
             ELSE [s |-> s, result |-> SetResult(item.path, FALSE, NotFoundMessage)]

(* SetItem that copies the value of the request only:
   current_signal.state.value.CopyFrom(state.value) *)
SetItemValueOnly(s, token, item) ==
    IF is_locked(s, item.path) /\ (token = EmptyToken \/ s.locks[item.path] # token)
    THEN [s |-> s, result |-> SetResult(item.path, FALSE, LockedMessage)]
    ELSE LET current_signal == get_signal(s, item.path)
         IN  IF current_signal # None
             THEN [ s |-> set_signal(
                             [s EXCEPT !.heap = [@ EXCEPT ![current_signal].state.value = item.state.value]],
                             item.path, current_signal),
                    result |-> SetResult(item.path, TRUE, "") ]
             ELSE [s |-> s, result |-> SetResult(item.path, FALSE, NotFoundMessage)]

(* SetItem that copies the whole message of the request into the stored one:
   current_signal.CopyFrom(signal_request), config included *)
SetItemCopiesSignal(s, token, item) ==
    IF is_locked(s, item.path) /\ (token = EmptyToken \/ s.locks[item.path] # token)
    THEN [s |-> s, result |-> SetResult(item.path, FALSE, LockedMessage)]
    ELSE LET current_signal == get_signal(s, item.path)
         IN  IF current_signal # None
             THEN [ s |-> set_signal(
                             [s EXCEPT !.heap = [@ EXCEPT ![current_signal] =
                                 [path |-> item.path, state |-> item.state,
                                  config |-> [leaf_type |-> "", data_type |-> "",
                                              description |-> <<>>, end_point |-> "",
                                              unit |-> ""]]]],
                             item.path, current_signal),
                    result |-> SetResult(item.path, TRUE, "") ]
             ELSE [s |-> s, result |-> SetResult(item.path, FALSE, NotFoundMessage)]

(* one iteration of the loop of Set over request.signals *)
SetItem(s, token, item) ==
    IF is_locked(s, item.path)
       /\ (token = EmptyToken
           \/ (IF item.path \in DOMAIN s.locks THEN s.locks[item.path] ELSE None) # token)
    THEN [s |-> s, result |-> SetResult(item.path, FALSE, LockedMessage)]
    ELSE LET current_signal == get_signal(s, item.path)
         IN  IF current_signal # None
             THEN \* current_signal.state.CopyFrom(state) writes into the stored object
                  [ s |-> set_signal(
                             [s EXCEPT !.heap = [@ EXCEPT ![current_signal].state = item.state]],
                             item.path, current_signal),
                    result |-> SetResult(item.path, TRUE, "") ]
             ELSE [s |-> s, result |-> SetResult(item.path, FALSE, NotFoundMessage)]

(* the loop of Set leaving at the first item that fails *)
RECURSIVE SetLoopStopsAtFailure(_, _, _, _)
SetLoopStopsAtFailure(s, token, items, results) ==
    IF items = <<>>
    THEN [s |-> s, results |-> results]
    ELSE LET r == SetItem(s, token, Head(items))
         IN  IF r.result.success
             THEN SetLoopStopsAtFailure(r.s, token, Tail(items), Append(results, r.result))
             ELSE [s |-> s, results |-> Append(results, r.result)]

RECURSIVE SetLoop(_, _, _, _)
SetLoop(s, token, items, results) ==
    IF items = <<>>
    THEN [s |-> s, results |-> results]
    ELSE LET r == SetItem(s, token, Head(items))
         IN  SetLoop(r.s, token, Tail(items), Append(results, r.result))

(* SignalServiceServicer.Set *)
Set(s, request) ==
    LET r == SetLoop(s, request.token, request.signals, <<>>)
    IN  [s |-> r.s, response |-> [results |-> r.results, success |-> TRUE]]

RECURSIVE GetLoop(_, _, _)
GetLoop(s, paths, found) ==
    IF paths = <<>>
    THEN found
    ELSE LET signal == get_signal(s, Head(paths))
         IN  GetLoop(s, Tail(paths),
                     IF signal # None THEN Append(found, s.heap[signal]) ELSE found)

(* Get that answers success=false with no signal when a path is missing *)
GetFailsOnMissing(s, request) ==
    IF \E i \in 1..Len(request.paths) : get_signal(s, request.paths[i]) = None
    THEN [s |-> s, response |-> [signals |-> <<>>, success |-> FALSE]]
    ELSE [s |-> s, response |-> [signals |-> GetLoop(s, request.paths, <<>>), success |-> TRUE]]

(* SignalServiceServicer.Get: the response carries copies of the messages *)
Get(s, request) ==
    [s |-> s, response |-> [signals |-> GetLoop(s, request.paths, <<>>), success |-> TRUE]]

(* the loop of Lock over request.paths; attempts records what each
   lock_signal call returned *)
RECURSIVE LockLoop(_, _, _, _, _)
LockLoop(s, token, paths, locked_paths, attempts) ==
    IF paths = <<>>
    THEN [s |-> s, locked_paths |-> locked_paths, attempts |-> attempts]
    ELSE LET r == lock_signal(s, Head(paths), token)
         IN  LockLoop(r.s, token, Tail(paths),
                      IF r.ret THEN Append(locked_paths, Head(paths)) ELSE locked_paths,
                      Append(attempts, r.ret))

(* success computed as `len(locked_paths) > 0` *)
LockSuccessIfAny(locked_paths, paths) == Len(locked_paths) > 0

(* success = len(locked_paths) == len(request.paths) *)
LockSuccess(locked_paths, paths) == Len(locked_paths) = Len(paths)

(* Lock that puts the token in the response whether or not it succeeded *)
LockAlwaysReturnsToken(s, request, token) ==
    LET r == LockLoop(s, token, request.paths, <<>>, <<>>)
        success == LockSuccess(r.locked_paths, request.paths)
    IN  [ s |-> r.s,
          response |-> [success |-> success, token |-> token],
          locked_paths |-> r.locked_paths,
          attempts |-> r.attempts ]

(* SignalServiceServicer.Lock, token being the str(uuid.uuid4()) it draws *)
Lock(s, request, token) ==
    LET r == LockLoop(s, token, request.paths, <<>>, <<>>)
        success == LockSuccess(r.locked_paths, request.paths)
    IN  [ s |-> r.s,
          response |-> [success |-> success,
                        token |-> IF success THEN token ELSE EmptyToken],
          locked_paths |-> r.locked_paths,
          attempts |-> r.attempts ]

(* paths_to_unlock cut down to one path *)
PathsToUnlockFirst(s, token) ==
    LET all == {path \in DOMAIN s.locks : s.locks[path] = token}
    IN  IF all = {} THEN {} ELSE {CHOOSE path \in all : TRUE}

(* paths_to_unlock of Unlock *)
PathsToUnlock(s, token) == {path \in DOMAIN s.locks : s.locks[path] = token}

RECURSIVE UnlockLoop(_, _, _, _)
UnlockLoop(s, token, paths, unlocked_count) ==
    IF paths = {}
    THEN [s |-> s, unlocked_count |-> unlocked_count]
    ELSE LET path == CHOOSE x \in paths : TRUE
             r == unlock_signal(s, path, token)
         IN  UnlockLoop(r.s, token, paths \ {path},
                        IF r.ret THEN unlocked_count + 1 ELSE unlocked_count)

(* SignalServiceServicer.Unlock *)
Unlock(s, request) ==
    LET r == UnlockLoop(s, request.token, PathsToUnlock(s, request.token), 0)
    IN  [ s |-> r.s,
          response |-> [success |-> r.unlocked_count > 0],
          unlocked_count |-> r.unlocked_count ]

(* Unsubscribe that deletes the registry entries of the requested paths *)
RECURSIVE UnsubscribeDropsPaths(_, _)
UnsubscribeDropsPaths(s, request) ==
    IF request.paths = <<>>
    THEN [s |-> s, response |-> [success |-> TRUE]]
    ELSE UnsubscribeDropsPaths(
             [s EXCEPT !.subscribers = Del(@, Head(request.paths))],
             [paths |-> Tail(request.paths)])

(* SignalServiceServicer.Unsubscribe *)
Unsubscribe(s, request) == [s |-> s, response |-> [success |-> TRUE]]

----------------------------------------------------------------------------
(* CarlaClient: the producer binding's updates.  Each reads the stored      *)
(* object, writes one member of its value in place and stores it again.     *)

UpdateValue(s, path, kind, v) ==
    LET signal == get_signal(s, path)
    IN  IF signal # None
        THEN set_signal([s EXCEPT !.heap = [@ EXCEPT ![signal].state.value = Value(kind, v)]],
                        path, signal)
        ELSE s

update_vehicle_speed(s, speed) == UpdateValue(s, "Vehicle.Speed", "float_value", speed)

update_engine_rpm(s, rpm) == UpdateValue(s, "Vehicle.Engine.RPM", "uint32_value", rpm)

update_vehicle_position(s, x, y, z) ==
    UpdateValue(
        UpdateValue(
            UpdateValue(s, "Vehicle.Position.X", "float_value", x),
            "Vehicle.Position.Y", "float_value", y),
        "Vehicle.Position.Z", "float_value", z)

update_vehicle_orientation(s, yaw) ==
    UpdateValue(s, "Vehicle.Orientation.Yaw", "float_value", yaw)

toggle_headlights(s, on) == UpdateValue(s, "Vehicle.Lights.Headlights", "bool_value", on)

toggle_door(s, door_path, open) == UpdateValue(s, door_path, "bool_value", open)

----------------------------------------------------------------------------
(* SignalServiceServicer.Subscribe: an async generator.  It suspends at     *)
(* `await asyncio.wait(...)` (pc = "wait") and at each `yield response`     *)
(* (pc = "yield"); the queue.get() tasks it creates run in between.         *)

StreamIds == 1..MaxStreams

NewStream ==
    [pc |-> "new", queues |-> <<>>, tasks |-> <<>>, todo |-> <<>>, pending |-> {},
     task |-> 0,         \* task: the task of done the loop is answering (0: none)
     emitted |-> <<>>]   \* emitted: the response of the yield the stream is suspended at

PendingTask == [st |-> "pending", item |-> None, sent |-> None]

(* the registration loop of Subscribe: one new queue per requested path *)
RECURSIVE RegisterLoop(_, _, _, _)
RegisterLoop(s, sid, paths, regs) ==
    IF paths = <<>>
    THEN [s |-> s, queues |-> regs]
    ELSE LET q == <<sid, Len(regs) + 1>>
         IN  RegisterLoop(
                 add_subscriber([s EXCEPT !.queues = Put(@, q, <<>>), !.sent = Put(@, q, <<>>)],
                                Head(paths), q),
                 sid, Tail(paths), Append(regs, <<Head(paths), q>>))

(* a finally block that removes the first registration only *)
CleanupFirstOnly(s, regs) ==
    IF regs = <<>>
    THEN s
    ELSE remove_subscriber(s, Head(regs)[1], Head(regs)[2])

(* the finally block of Subscribe *)
RECURSIVE CleanupLoop(_, _)
CleanupLoop(s, regs) ==
    IF regs = <<>>
    THEN s
    ELSE CleanupLoop(remove_subscriber(s, Head(regs)[1], Head(regs)[2]), Tail(regs))

(* response.signal.CopyFrom(signal): a copy of the object as it is now *)
SubscribeResponse(s, obj) == [signal |-> s.heap[obj], error_message |-> ""]

ErrorResponse(message) == [signal |-> None, error_message |-> message]

(* the orders in which a Python set of the elements of S can be iterated *)
Orders(S) == {f \in [1..Cardinality(S) -> S] : \A i, j \in 1..Cardinality(S) : f[i] = f[j] => i = j}

----------------------------------------------------------------------------
(* State *)

S == Store(signals, heap, locks, subscribers, queues, sent)

Commit(s) ==
    /\ signals' = s.signals
    /\ heap' = s.heap
    /\ locks' = s.locks
    /\ subscribers' = s.subscribers
    /\ queues' = s.queues
    /\ sent' = s.sent

(* the queues are unbounded; the model stops writers that would exceed its bound *)
WithinQueueBound(s) == \A q \in DOMAIN s.queues : Len(s.queues[q]) <= MaxQueueLen

RECURSIVE InitLoop(_, _)
InitLoop(s, paths) ==
    IF paths = {}
    THEN s
    ELSE LET path == CHOOSE x \in paths : TRUE
         IN  InitLoop(set_signal(s, path, path), paths \ {path})

(* SignalStore.__init__ *)
EmptyStore(hp) == Store(EmptyMap, hp, EmptyMap, EmptyMap, EmptyMap, EmptyMap)

(* SignalServiceServicer.__init__: an empty SignalStore, then CarlaClient
   registers its signals; the object created for a path is named by the path *)
InitialStore == InitLoop(EmptyStore(carla_signals), RegisteredPaths)

Init ==
    /\ signals = InitialStore.signals
    /\ heap = InitialStore.heap
    /\ locks = InitialStore.locks
    /\ subscribers = InitialStore.subscribers
    /\ queues = InitialStore.queues
    /\ sent = InitialStore.sent
    /\ streams = [sid \in StreamIds |-> NewStream]
    /\ nextToken = 0
    /\ issued = {}
    /\ produced = 0
    /\ last = [op |-> "init"]

----------------------------------------------------------------------------
(* Requests of the model *)

(* the state a request of the model carries for a path: a float value with
   both flags left at their default (False) *)
ReqState(path) == State(Value("float_value", 60), FALSE, FALSE)

SetItems == {[path |-> path, state |-> ReqState(path)] : path \in ReqPaths}

SetRequests == [signals : SeqsUpTo(SetItems, MaxSetItems), token : ReqTokens]

PathLists(n) == SeqsUpTo(ReqPaths, n)

----------------------------------------------------------------------------
(* Actions: the unary RPCs *)

GetRPC ==
    \E paths \in PathLists(MaxGetPaths) :
        LET request == [paths |-> paths]
            r == Get(S, request)
        IN  /\ Commit(r.s)
            /\ last' = [op |-> "Get", request |-> request, response |-> r.response]
            /\ UNCHANGED <<streams, nextToken, issued, produced>>

SetRPC ==
    \E request \in SetRequests :
        LET r == Set(S, request)
        IN  /\ WithinQueueBound(r.s)
            /\ Commit(r.s)
            /\ last' = [op |-> "Set", request |-> request, response |-> r.response]
            /\ UNCHANGED <<streams, nextToken, issued, produced>>

LockRPC ==
    /\ nextToken < MaxTokens
    /\ \E paths \in PathLists(MaxLockPaths) :
        LET request == [paths |-> paths]
            token == nextToken + 1
            r == Lock(S, request, token)
        IN  /\ Commit(r.s)
            /\ nextToken' = token
            /\ issued' = issued \cup ({r.response.token} \ {EmptyToken})
            /\ last' = [op |-> "Lock", request |-> request, response |-> r.response,
                        token |-> token, locked_paths |-> r.locked_paths,
                        attempts |-> r.attempts]
            /\ UNCHANGED <<streams, produced>>

UnlockRPC ==
    \E token \in ReqTokens :
        LET request == [token |-> token]
            r == Unlock(S, request)
        IN  /\ Commit(r.s)
            /\ last' = [op |-> "Unlock", request |-> request, response |-> r.response]
            /\ UNCHANGED <<streams, nextToken, issued, produced>>

UnsubscribeRPC ==
    \E paths \in PathLists(MaxGetPaths) :
        LET request == [paths |-> paths]
            r == Unsubscribe(S, request)
        IN  /\ Commit(r.s)
            /\ last' = [op |-> "Unsubscribe", request |-> request, response |-> r.response]
            /\ UNCHANGED <<streams, nextToken, issued, produced>>

----------------------------------------------------------------------------
(* Actions: the producer binding (CarlaClient) *)

(* the values the producer of the model reports *)
Speeds == {50}
Rpms == {3000}
Coords == {7}
Yaws == {90}
Switches == {1}
DoorPaths == {"Vehicle.Doors.FrontLeft", UnknownPath}

Produce(call, s) ==
    /\ produced < MaxProduced
    /\ WithinQueueBound(s)
    /\ Commit(s)
    /\ produced' = produced + 1
    /\ last' = call
    /\ UNCHANGED <<streams, nextToken, issued>>

UpdateVehicleSpeed ==
    \E speed \in Speeds :
        Produce([op |-> "update_vehicle_speed", speed |-> speed],
                update_vehicle_speed(S, speed))

UpdateEngineRpm ==
    \E rpm \in Rpms :
        Produce([op |-> "update_engine_rpm", rpm |-> rpm], update_engine_rpm(S, rpm))

UpdateVehiclePosition ==
    \E x \in Coords, y \in Coords, z \in Coords :
        Produce([op |-> "update_vehicle_position", x |-> x, y |-> y, z |-> z],
                update_vehicle_position(S, x, y, z))

UpdateVehicleOrientation ==
    \E yaw \in Yaws :
        Produce([op |-> "update_vehicle_orientation", yaw |-> yaw],
                update_vehicle_orientation(S, yaw))

ToggleHeadlights ==
    \E on \in Switches :
        Produce([op |-> "toggle_headlights", on |-> on], toggle_headlights(S, on))

ToggleDoor ==
    \E door_path \in DoorPaths, open \in Switches :
        Produce([op |-> "toggle_door", door_path |-> door_path, open |-> open],
                toggle_door(S, door_path, open))

----------------------------------------------------------------------------
(* Actions: a Subscribe stream *)

StreamStep(sid, s, stream, op) ==
    /\ Commit(s)
    /\ streams' = [streams EXCEPT ![sid] = stream]
    /\ last' = [op |-> op, sid |-> sid]
    /\ UNCHANGED <<nextToken, issued, produced>>

Closed(stream, response) ==
    [stream EXCEPT !.pc = "closed", !.tasks = <<>>, !.todo = <<>>, !.pending = {},
                   !.task = 0, !.emitted = response]

(* the call of Subscribe with request.paths = paths, up to its first suspension *)
SubscribeCall(sid, paths) ==
    LET r == RegisterLoop(S, sid, paths, <<>>)
        stream == [streams[sid] EXCEPT !.queues = r.queues]
    IN  IF paths = <<>>
        THEN \* asyncio.wait of an empty list raises ValueError
             StreamStep(sid, CleanupLoop(r.s, r.queues),
                        Closed(stream, ErrorResponse("ValueError")), "Subscribe")
        ELSE StreamStep(sid, r.s,
                        [stream EXCEPT !.pc = "wait",
                                       !.tasks = [i \in 1..Len(r.queues) |-> PendingTask]],
                        "Subscribe")

SubscribeStart(sid) ==
    /\ streams[sid].pc = "new"
    /\ \E paths \in PathLists(MaxSubPaths) : SubscribeCall(sid, paths)

(* a task that takes the newest entry of its queue instead of the oldest *)
TaskCompleteTakesLast(sid) ==
    /\ streams[sid].pc \in {"wait", "yield"}
    /\ \E i \in 1..Len(streams[sid].tasks) :
        LET q == streams[sid].queues[i][2]
            n == Len(queues[q])
        IN  /\ streams[sid].tasks[i].st = "pending"
            /\ queues[q] # <<>>
            /\ StreamStep(sid, [S EXCEPT !.queues[q] = SubSeq(@, 1, n - 1),
                                         !.sent[q] = SubSeq(@, 1, n - 1)],
                          [streams[sid] EXCEPT !.tasks[i] = [st |-> "done", item |-> queues[q][n],
                                                             sent |-> sent[q][n]]],
                          "task")

(* a queue.get() task of the stream takes the next entry of its queue *)
TaskComplete(sid) ==
    /\ streams[sid].pc \in {"wait", "yield"}
    /\ \E i \in 1..Len(streams[sid].tasks) :
        LET q == streams[sid].queues[i][2]
        IN  /\ streams[sid].tasks[i].st = "pending"
            /\ queues[q] # <<>>
            /\ StreamStep(sid, [S EXCEPT !.queues[q] = Tail(@), !.sent[q] = Tail(@)],
                          [streams[sid] EXCEPT !.tasks[i] = [st |-> "done", item |-> Head(queues[q]),
                                                             sent |-> Head(sent[q])]],
                          "task")

DoneTasks(stream) == {i \in 1..Len(stream.tasks) : stream.tasks[i].st = "done"}

(* asyncio.wait returns (done, pending); the first task of done is answered.
   The event loop runs its callbacks in the order they were scheduled: a
   task whose queue already holds an entry runs to its end before the
   waiter woken by another task's completion does, so it is in done *)
StreamWaitReturn(sid) ==
    /\ streams[sid].pc = "wait"
    /\ DoneTasks(streams[sid]) # {}
    /\ \A i \in 1..Len(streams[sid].tasks) :
          streams[sid].tasks[i].st = "pending" => queues[streams[sid].queues[i][2]] = <<>>
    /\ \E order \in Orders(DoneTasks(streams[sid])) :
        StreamStep(sid, S,
                   [streams[sid] EXCEPT
                        !.pc = "yield",
                        !.task = order[1],
                        !.todo = Tail(order),
                        !.pending = (1..Len(streams[sid].tasks)) \ DoneTasks(streams[sid]),
                        !.emitted = SubscribeResponse(S, streams[sid].tasks[order[1]].item)],
                   "emit")

(* StreamResume that waits again on the tasks it has instead of creating new
   ones: the finished tasks are still finished at the next asyncio.wait *)
StreamResumeKeepsTasks(sid) ==
    /\ streams[sid].pc = "yield"
    /\ IF streams[sid].todo # <<>>
       THEN StreamStep(sid, S,
                  [streams[sid] EXCEPT
                       !.task = Head(streams[sid].todo),
                       !.todo = Tail(@),
                       !.emitted = SubscribeResponse(S, streams[sid].tasks[Head(streams[sid].todo)].item)],
                  "emit")
       ELSE StreamStep(sid, S,
                  [streams[sid] EXCEPT !.pc = "wait", !.task = 0, !.pending = {}, !.emitted = <<>>],
                  "rearm")

(* the generator is resumed after a yield: the next task of done is answered;
   when done is exhausted the pending tasks are cancelled (a result one of
   them got meanwhile is dropped) and new tasks are created for every queue *)
StreamResume(sid) ==
    /\ streams[sid].pc = "yield"
    /\ IF streams[sid].todo # <<>>
       THEN StreamStep(sid, S,
                  [streams[sid] EXCEPT
                       !.task = Head(streams[sid].todo),
                       !.todo = Tail(@),
                       !.emitted = SubscribeResponse(S, streams[sid].tasks[Head(streams[sid].todo)].item)],
                  "emit")
       ELSE StreamStep(sid, S,
                  [streams[sid] EXCEPT
                       !.pc = "wait",
                       !.task = 0,
                       !.pending = {},
                       !.emitted = <<>>,
                       !.tasks = [i \in 1..Len(streams[sid].queues) |-> PendingTask]],
                  "rearm")

(* the stream ends at a suspension point (the peer cancels, or the context
   is no longer active): the finally block removes its registrations *)
StreamTerminate(sid) ==
    /\ streams[sid].pc \in {"wait", "yield"}
    /\ StreamStep(sid, CleanupLoop(S, streams[sid].queues),
                  Closed(streams[sid], <<>>), "terminate")

----------------------------------------------------------------------------
(* The service *)

Next ==
    \/ GetRPC
    \/ SetRPC
    \/ LockRPC
    \/ UnlockRPC
    \/ UnsubscribeRPC
    \/ UpdateVehicleSpeed
    \/ UpdateEngineRpm
    \/ UpdateVehiclePosition
    \/ UpdateVehicleOrientation
    \/ ToggleHeadlights
    \/ ToggleDoor
    \/ \E sid \in StreamIds : SubscribeStart(sid)
    \/ \E sid \in StreamIds : TaskComplete(sid)
    \/ \E sid \in StreamIds : StreamWaitReturn(sid)
    \/ \E sid \in StreamIds : StreamResume(sid)
    \/ \E sid \in StreamIds : StreamTerminate(sid)

Spec == Init /\ [][Next]_vars

----------------------------------------------------------------------------
(* The store on its own: a SignalStore right after SignalStore.__init__,    *)
(* driven through its methods by an in-process caller (as CarlaClient and   *)
(* the servicer are), with Signal and Queue objects the caller made.        *)

ObjPool == {"sigA"}
QueuePool == {"qA", "qB"}

PoolHeap == [o \in ObjPool |-> create_signal("Vehicle.Speed", "LEAF_TYPE_SENSOR", "TYPE_FLOAT", "float", 0)]

InitStore ==
    /\ signals = EmptyStore(PoolHeap).signals
    /\ heap = EmptyStore(PoolHeap).heap
    /\ locks = EmptyStore(PoolHeap).locks
    /\ subscribers = EmptyStore(PoolHeap).subscribers
    /\ queues = [q \in QueuePool |-> <<>>]
    /\ sent = [q \in QueuePool |-> <<>>]
    /\ streams = [sid \in StreamIds |-> NewStream]
    /\ nextToken = 0
    /\ issued = {}
    /\ produced = 0
    /\ last = [op |-> "init"]

StoreCall(s, call) ==
    /\ WithinQueueBound(s)
    /\ Commit(s)
    /\ last' = call
    /\ UNCHANGED <<streams, nextToken, issued, produced>>

CallGetSignal ==
    \E path \in ReqPaths :
        StoreCall(S, [op |-> "get_signal", path |-> path, ret |-> get_signal(S, path)])

CallSetSignal ==
    \E path \in ReqPaths, obj \in ObjPool :
        StoreCall(set_signal(S, path, obj),
                  [op |-> "set_signal", path |-> path, signal |-> obj, ret |-> None])

CallIsLocked ==
    \E path \in ReqPaths :
        StoreCall(S, [op |-> "is_locked", path |-> path, ret |-> is_locked(S, path)])

CallLockSignal ==
    \E path \in ReqPaths, token \in Tokens :
        LET r == lock_signal(S, path, token)
        IN  StoreCall(r.s, [op |-> "lock_signal", path |-> path, token |-> token, ret |-> r.ret])

CallUnlockSignal ==
    \E path \in ReqPaths, token \in Tokens :
        LET r == unlock_signal(S, path, token)
        IN  StoreCall(r.s, [op |-> "unlock_signal", path |-> path, token |-> token, ret |-> r.ret])

CallAddSubscriber ==
    \E path \in ReqPaths, q \in QueuePool :
        StoreCall(add_subscriber(S, path, q),
                  [op |-> "add_subscriber", path |-> path, queue |-> q, ret |-> None])

CallRemoveSubscriber ==
    \E path \in ReqPaths, q \in QueuePool :
        StoreCall(remove_subscriber(S, path, q),
                  [op |-> "remove_subscriber", path |-> path, queue |-> q, ret |-> None])

(* the caller takes the next entry of one of its queues: queue.get() *)
CallQueueGet ==
    \E q \in QueuePool :
        /\ queues[q] # <<>>
        /\ StoreCall([S EXCEPT !.queues[q] = Tail(@), !.sent[q] = Tail(@)],
                     [op |-> "queue_get", queue |-> q, ret |-> Head(queues[q])])

NextStore ==
    \/ CallGetSignal
    \/ CallSetSignal
    \/ CallIsLocked
    \/ CallLockSignal
    \/ CallUnlockSignal
    \/ CallAddSubscriber
    \/ CallRemoveSubscriber
    \/ CallQueueGet

SpecStore == InitStore /\ [][NextStore]_vars

----------------------------------------------------------------------------
(* Streams on several paths: the servicer with Subscribe requests of up to  *)
(* MaxStreamPaths paths and Set requests without a token carrying distinct  *)
(* values, so that the updates of a path can be told apart.                 *)

MaxStreamPaths == 2      \* longest path list of a Subscribe request
MaxStreamQueueLen == 2   \* most unread updates held by one queue

StreamPaths == { "Vehicle.Speed", "Vehicle.Engine.RPM" }

StreamValues == { 60, 61 }

StreamSetItems ==
    {[path |-> path, state |-> State(Value("float_value", v), FALSE, FALSE)] :
        path \in StreamPaths, v \in StreamValues}

StreamSetRequests == [signals : SeqsUpTo(StreamSetItems, MaxSetItems), token : {EmptyToken}]

StreamSetRPC ==
    \E request \in StreamSetRequests :
        LET r == Set(S, request)
        IN  /\ \A q \in DOMAIN r.s.queues : Len(r.s.queues[q]) <= MaxStreamQueueLen
            /\ Commit(r.s)
            /\ last' = [op |-> "Set", request |-> request, response |-> r.response]
            /\ UNCHANGED <<streams, nextToken, issued, produced>>

StreamSubscribe(sid) ==
    /\ streams[sid].pc = "new"
    /\ \E paths \in SeqsUpTo(StreamPaths, MaxStreamPaths) : SubscribeCall(sid, paths)

NextStream ==
    \/ StreamSetRPC
    \/ UpdateVehicleSpeed
    \/ \E sid \in StreamIds : StreamSubscribe(sid)
    \/ \E sid \in StreamIds : TaskComplete(sid)
    \/ \E sid \in StreamIds : StreamWaitReturn(sid)
    \/ \E sid \in StreamIds : StreamResume(sid)
    \/ \E sid \in StreamIds : StreamTerminate(sid)

SpecStream == Init /\ [][NextStream]_vars

----------------------------------------------------------------------------
(* Batches: the unary handlers with Get and Set requests of up to MaxBatch  *)
(* paths or items, over two registered paths and an unregistered one, the   *)
(* Set items carrying distinct values.                                      *)

MaxBatch == 2      \* longest path list of a Get request, longest item list of a Set request

BatchPaths == { "Vehicle.Speed", "Vehicle.Engine.RPM", UnknownPath }

(* one value for every path and a second one for Vehicle.Speed *)
BatchSetItems ==
    {[path |-> path, state |-> State(Value("float_value", 60), FALSE, FALSE)] :
        path \in BatchPaths}
    \cup {[path |-> "Vehicle.Speed", state |-> State(Value("float_value", 61), FALSE, FALSE)]}

BatchSetRequests == [signals : SeqsUpTo(BatchSetItems, MaxBatch), token : ReqTokens]

BatchGetRPC ==
    \E paths \in SeqsUpTo(BatchPaths, MaxBatch) :
        LET request == [paths |-> paths]
            r == Get(S, request)
        IN  /\ Commit(r.s)
            /\ last' = [op |-> "Get", request |-> request, response |-> r.response]
            /\ UNCHANGED <<streams, nextToken, issued, produced>>

BatchSetRPC ==
    \E request \in BatchSetRequests :
        LET r == Set(S, request)
        IN  /\ Commit(r.s)
            /\ last' = [op |-> "Set", request |-> request, response |-> r.response]
            /\ UNCHANGED <<streams, nextToken, issued, produced>>

NextBatch ==
    \/ BatchGetRPC
    \/ BatchSetRPC
    \/ LockRPC
    \/ UnlockRPC

SpecBatch == Init /\ [][NextBatch]_vars

----------------------------------------------------------------------------
(* Claims *)

(* the requests' items, results and paths of the last Set call *)
Items(call) == call.request.signals
Results(call) == call.response.results

(* the signal stored at a registered path is the same object with the same
   contents before and after the step *)
SignalUnchanged(path) ==
    path \in DOMAIN signals =>
        /\ path \in DOMAIN signals'
        /\ signals'[path] = signals[path]
        /\ heap'[signals[path]] = heap[signals[path]]

(* no queue registered on the path gets or loses an entry in the step *)
SubscribersNotNotified(path) ==
    path \in DOMAIN subscribers =>
        \A q \in subscribers[path] : queues'[q] = queues[q]

(* C1: in a Set call, an item whose path is locked while the request token is
   empty or is not the holding token gets the result success=false with the
   message 'Signal is locked by another client', the stored signal of that
   path is unchanged and no queue registered on that path receives an entry;
   an item on a locked path succeeds only if the request token is the
   holding token. *)
C1_LockedSetNeedsHoldingToken ==
    [][ last'.op = "Set" =>
          \A i \in 1..Len(Items(last')) :
              LET path == Items(last')[i].path
                  token == last'.request.token
              IN  path \in DOMAIN locks =>
                    /\ (token = EmptyToken \/ token # locks[path]) =>
                          /\ Results(last')[i] = SetResult(path, FALSE, LockedMessage)
                          /\ SignalUnchanged(path)
                          /\ SubscribersNotNotified(path)
                    /\ Results(last')[i].success => token = locks[path]
      ]_vars

(* a Set with a non-empty token that is not the holder's was rejected on a
   registered path that has a subscriber *)
C1_Witness ==
    /\ last.op = "Set"
    /\ last.request.token # EmptyToken
    /\ \E i \in 1..Len(Items(last)) :
          /\ Results(last)[i] = SetResult(Items(last)[i].path, FALSE, LockedMessage)
          /\ Items(last)[i].path \in DOMAIN signals
          /\ Items(last)[i].path \in DOMAIN subscribers
          /\ Items(last)[i].path \in DOMAIN locks
          /\ locks[Items(last)[i].path] # last.request.token

(* the store after the step *)
SNext == Store(signals', heap', locks', subscribers', queues', sent')

(* C2: while path p is locked under t1 (lock_signal(p, t1) returned True), for
   every other token t2 lock_signal(p, t2) returns False and
   unlock_signal(p, t2) returns False, and unlock_signal(p, t1) returns True
   and releases p; right after that unlock, lock_signal(p, t2) returns True
   and p is locked under t2. *)
C2_LockProtocol ==
    [][ /\ \A p \in DOMAIN locks :
            /\ (last'.op = "lock_signal" /\ last'.path = p /\ last'.token # locks[p])
                  => (~last'.ret /\ locks'[p] = locks[p])
            /\ (last'.op = "unlock_signal" /\ last'.path = p /\ last'.token # locks[p])
                  => (~last'.ret /\ p \in DOMAIN locks' /\ locks'[p] = locks[p])
            /\ (last'.op = "unlock_signal" /\ last'.path = p /\ last'.token = locks[p])
                  => (last'.ret /\ p \notin DOMAIN locks')
        /\ (/\ last.op = "unlock_signal" /\ last.ret
            /\ last'.op = "lock_signal" /\ last'.path = last.path)
              => (/\ last'.ret
                  /\ last'.path \in DOMAIN locks'
                  /\ locks'[last'.path] = last'.token)
      ]_vars

(* a token that does not hold the lock of a locked path asked to unlock it
   and was rejected *)
C2_Witness ==
    /\ last.op = "unlock_signal"
    /\ ~last.ret
    /\ last.path \in DOMAIN locks
    /\ locks[last.path] # last.token

(* C3: a rejected lock_signal or unlock_signal leaves the lock table, the
   signals and the subscriber registry as they were, and they are rejected in
   these cases: lock_signal on a locked path (also with the holder's token),
   unlock_signal with a token that is not the holder's, unlock_signal on an
   unlocked path.  A Lock RPC that fails leaves every path that was locked
   before it under the token it had; the Lock handler is applied to the
   store after every step that changed the lock table. *)
C3_RejectedLockHasNoEffect ==
    [][ /\ (last'.op \in {"lock_signal", "unlock_signal"} /\ ~last'.ret)
              => UNCHANGED <<locks, signals, heap, subscribers, queues>>
        /\ (last'.op = "lock_signal" /\ last'.path \in DOMAIN locks) => ~last'.ret
        /\ (last'.op = "unlock_signal"
            /\ (last'.path \notin DOMAIN locks \/ locks[last'.path] # last'.token))
              => ~last'.ret
        /\ locks' # locks =>
              \A paths \in PathLists(MaxLockPaths), token \in 1..(MaxTokens + 1) :
                LET r == Lock(SNext, [paths |-> paths], token)
                IN  ~r.response.success =>
                      /\ r.response.token = EmptyToken
                      /\ \A p \in DOMAIN locks' :
                            p \in DOMAIN r.s.locks /\ r.s.locks[p] = locks'[p]
                      /\ r.s.signals = signals' /\ r.s.heap = heap'
                      /\ r.s.subscribers = subscribers' /\ r.s.queues = queues'
      ]_vars

(* the holder of a lock asked for it again and was rejected *)
C3_Witness ==
    /\ last.op = "lock_signal"
    /\ ~last.ret
    /\ last.path \in DOMAIN locks
    /\ locks[last.path] = last.token

(* C4: a Lock call answers success=true with a non-empty token exactly when
   every lock_signal call it made returned True, and then every requested
   path is locked under the returned token; otherwise it answers
   success=false with the empty token. *)
C4_LockResponse ==
    last.op = "Lock" =>
        LET allLocked == \A i \in 1..Len(last.attempts) : last.attempts[i]
        IN  /\ Len(last.attempts) = Len(last.request.paths)
            /\ last.response.success <=> allLocked
            /\ last.response.success =>
                  /\ last.response.token # EmptyToken
                  /\ \A i \in 1..Len(last.request.paths) :
                        /\ last.request.paths[i] \in DOMAIN locks
                        /\ locks[last.request.paths[i]] = last.response.token
            /\ ~last.response.success => last.response.token = EmptyToken

(* a Lock of two paths succeeded *)
C4_Witness ==
    /\ last.op = "Lock"
    /\ last.response.success
    /\ Len(last.request.paths) = 2

(* C5: a Lock call that fails keeps the paths it locked: they are locked
   under the call's token, which is in no Lock response; and a path locked
   under a token that no Lock response carried stays locked under it in every
   step, except an Unlock call that presents that very token: so no Unlock
   presenting a token some Lock response carried releases it, and the token
   is never returned later. *)
C5_OrphanedLocksStay ==
    [][ /\ (last'.op = "Lock" /\ ~last'.response.success) =>
              /\ last'.token \notin issued'
              /\ \A i \in 1..Len(last'.locked_paths) :
                    /\ last'.locked_paths[i] \in DOMAIN locks'
                    /\ locks'[last'.locked_paths[i]] = last'.token
        /\ \A p \in DOMAIN locks :
              locks[p] \notin issued =>
                  /\ locks[p] \notin issued'
                  /\ \/ (p \in DOMAIN locks' /\ locks'[p] = locks[p])
                     \/ (last'.op = "Unlock" /\ last'.request.token = locks[p])
      ]_vars

(* an Unlock with a token a Lock response carried succeeded while a path
   stays locked under a token no client was given *)
C5_Witness ==
    /\ last.op = "Unlock"
    /\ last.request.token \in issued
    /\ last.response.success
    /\ \E p \in DOMAIN locks : locks[p] \notin issued

(* C6: an Unlock call with token t removes from the lock table exactly the
   paths locked under t; it answers success=true iff there was such a path,
   and when there is none the lock table is unchanged. *)
C6_UnlockReleasesOwnPaths ==
    [][ last'.op = "Unlock" =>
          LET t == last'.request.token
              held == {p \in DOMAIN locks : locks[p] = t}
          IN  /\ DOMAIN locks' = (DOMAIN locks) \ held
              /\ \A p \in DOMAIN locks' : locks'[p] = locks[p]
              /\ last'.response.success <=> held # {}
              /\ held = {} => locks' = locks
      ]_vars

(* an Unlock released what its token held and left a path locked under
   another token *)
C6_Witness ==
    /\ last.op = "Unlock"
    /\ last.response.success
    /\ locks # EmptyMap
    /\ \A p \in DOMAIN locks : locks[p] # last.request.token

(* C7: in every Set call, an item on a path that has no signal gets the
   result success=false with the message 'Signal not found', and the call
   leaves signals, locks, subscribers and queues as they were unless another
   item of the call is applied. *)
C7_SetOnUnregisteredPathNotFound ==
    [][ last'.op = "Set" =>
          \A i \in 1..Len(Items(last')) :
              LET path == Items(last')[i].path
              IN  path \notin DOMAIN signals =>
                    /\ Results(last')[i] = SetResult(path, FALSE, NotFoundMessage)
                    /\ path \notin DOMAIN signals'
                    /\ locks' = locks
                    /\ subscribers' = subscribers
                    /\ SubscribersNotNotified(path)
      ]_vars

(* C8 (I1): every path in the lock table or in the subscriber registry has a
   signal in the store. *)
C8_LockedAndSubscribedPathsAreRegistered ==
    (DOMAIN locks) \cup (DOMAIN subscribers) \subseteq DOMAIN signals

(* the queues after set_signal(path, obj): obj appended to every queue
   registered on path, the others as they were *)
QueuesAfterNotify(path, obj) ==
    [q \in DOMAIN queues |->
        IF path \in DOMAIN subscribers /\ q \in subscribers[path]
        THEN Append(queues[q], obj) ELSE queues[q]]

(* C9 as stated: set_signal on a path that has no signal returns a false
   value (the None it returns counts as one), creates no signal and notifies
   no subscriber. *)
C9_SetOnUnregisteredPathRejected ==
    [][ (last'.op = "set_signal" /\ last'.path \notin DOMAIN signals) =>
          /\ last'.ret = None
          /\ signals' = signals
          /\ queues' = queues
      ]_vars

(* C9 as amended: set_signal(path, signal) returns nothing (None) and stores
   the signal under path whether or not the path had a signal, creating the
   entry when it had none, and hands the signal to every queue registered on
   path and to no other queue; the signals of the other paths, the locks and
   the registry are unchanged. *)
C9_SetSignalStoresUnconditionally ==
    [][ last'.op = "set_signal" =>
          /\ last'.ret = None
          /\ signals' = Put(signals, last'.path, last'.signal)
          /\ queues' = QueuesAfterNotify(last'.path, last'.signal)
          /\ UNCHANGED <<heap, locks, subscribers>>
      ]_vars

(* set_signal was called on a path that had no signal and has a subscriber:
   the signal is stored and sits in the subscriber's queue *)
C9_Witness ==
    /\ last.op = "set_signal"
    /\ signals = Put(EmptyMap, last.path, last.signal)
    /\ last.path \in DOMAIN subscribers
    /\ \E q \in subscribers[last.path] : queues[q] = <<last.signal>>

(* C10: the set of registered paths is the one CarlaClient registered at
   initialization, in every state reachable by Get, Set, Lock, Unlock,
   Subscribe, Unsubscribe calls and producer updates. *)
C10_RegisteredPathsFixed == DOMAIN signals = RegisteredPaths

(* a Set on an unregistered path was answered 'Signal not found', after the
   producer had toggled a door that is not registered either *)
C10_Witness ==
    /\ last.op = "Set"
    /\ \E i \in 1..Len(Items(last)) :
          /\ Items(last)[i].path \notin RegisteredPaths
          /\ Results(last)[i] = SetResult(Items(last)[i].path, FALSE, NotFoundMessage)
    /\ produced > 0

(* C11: set_signal(p, signal) hands the signal, in the same step, to exactly
   the queues registered on p at that moment: each of them gets one entry
   (the signal, after what it held), every other queue is as it was; and a
   queue gets an entry only in a set_signal step on a path it is registered
   on at that step, so registering a queue (add_subscriber) gives it nothing
   of the updates made before. *)
C11_FanOutToRegisteredQueues ==
    [][ /\ last'.op = "set_signal" =>
              \A q \in DOMAIN queues :
                  IF last'.path \in DOMAIN subscribers /\ q \in subscribers[last'.path]
                  THEN queues'[q] = Append(queues[q], last'.signal)
                  ELSE queues'[q] = queues[q]
        /\ \A q \in DOMAIN queues :
              Len(queues'[q]) > Len(queues[q]) =>
                  /\ last'.op = "set_signal"
                  /\ last'.path \in DOMAIN subscribers
                  /\ q \in subscribers[last'.path]
        /\ last'.op = "add_subscriber" => queues' = queues
      ]_vars

(* a set_signal on a path delivered to the queue registered on it and not to
   the queue registered on another path only *)
C11_Witness ==
    /\ last.op = "set_signal"
    /\ last.path \in DOMAIN subscribers
    /\ \E q1, q2 \in DOMAIN queues :
          /\ q1 # q2
          /\ subscribers[last.path] = {q1}
          /\ queues[q1] = <<last.signal>>
          /\ \E p \in DOMAIN subscribers : p # last.path /\ q2 \in subscribers[p]
          /\ queues[q2] = <<>>

----------------------------------------------------------------------------
(* Subscribe streams: what a stream still owes its client *)

Active(stream) == stream.pc \in {"wait", "yield"}

(* the tasks of the stream whose result has been taken from the queue and
   not been answered yet *)
Unemitted(stream) ==
    IF stream.pc = "wait" THEN DoneTasks(stream)
    ELSE IF stream.pc = "yield"
         THEN {stream.todo[j] : j \in 1..Len(stream.todo)}
              \cup (DoneTasks(stream) \cap stream.pending)
         ELSE {}

(* the updates handed to the k-th queue of the stream and not answered yet,
   oldest first, each as what was written *)
Outstanding(stream, snt, k) ==
    (IF k \in Unemitted(stream) THEN <<stream.tasks[k].sent>> ELSE <<>>)
        \o snt[stream.queues[k][2]]

(* the paths a call of the producer binding writes, given the signals stored *)
ProducerPaths(call) ==
    (CASE call.op = "update_vehicle_speed" -> {"Vehicle.Speed"}
       [] call.op = "update_engine_rpm" -> {"Vehicle.Engine.RPM"}
       [] call.op = "update_vehicle_position" ->
            {"Vehicle.Position.X", "Vehicle.Position.Y", "Vehicle.Position.Z"}
       [] call.op = "update_vehicle_orientation" -> {"Vehicle.Orientation.Yaw"}
       [] call.op = "toggle_headlights" -> {"Vehicle.Lights.Headlights"}
       [] call.op = "toggle_door" -> {call.door_path}
       [] OTHER -> {}) \cap DOMAIN signals

(* the number of updates of path that the call applied *)
NumUpdates(call, path) ==
    IF call.op = "Set"
    THEN Cardinality({i \in 1..Len(Items(call)) :
                         Items(call)[i].path = path /\ Results(call)[i].success})
    ELSE IF path \in ProducerPaths(call) THEN 1 ELSE 0

(* the number of responses the stream sid emits in the step that call records *)
NumEmitted(call, sid) == IF call.op = "emit" /\ call.sid = sid THEN 1 ELSE 0

(* C12: a Subscribe stream registered on one path X owes nothing when it is
   registered, and in every step in which it stays registered the number of
   updates it owes (handed to its queue, not emitted yet) grows by the
   number of successful updates of X the step applies and shrinks by the
   number of responses the stream emits in the step: one response for each
   update of X, none for an update of another path. *)
C12_SinglePathStreamEmitsOncePerSet ==
    [][ \A sid \in StreamIds :
          /\ (last'.op = "Subscribe" /\ last'.sid = sid /\ Active(streams'[sid])
               /\ Len(streams'[sid].queues) = 1)
                => Outstanding(streams'[sid], sent', 1) = <<>>
          /\ (Active(streams[sid]) /\ Active(streams'[sid]) /\ Len(streams[sid].queues) = 1)
                => Len(Outstanding(streams'[sid], sent', 1))
                     = Len(Outstanding(streams[sid], sent, 1))
                         + NumUpdates(last', streams[sid].queues[1][1])
                         - NumEmitted(last', sid)
      ]_vars

(* a stream on one path has emitted the response of an update of its path
   and owes nothing more *)
C12_Witness ==
    \E sid \in StreamIds :
        /\ streams[sid].pc = "yield"
        /\ Len(streams[sid].queues) = 1
        /\ streams[sid].queues[1][1] \in DOMAIN signals
        /\ streams[sid].emitted = [signal |-> heap[signals[streams[sid].queues[1][1]]],
                                   error_message |-> ""]
        /\ Outstanding(streams[sid], sent, 1) = <<>>

(* the number of responses the stream sid emits for its k-th queue in the
   step that leads to the primed state *)
NumEmittedFor(sid, k) ==
    IF last'.op = "emit" /\ last'.sid = sid /\ streams'[sid].task = k THEN 1 ELSE 0

(* C13: while a Subscribe stream stays registered, for each of its queues
   the number of updates it owes (handed to the queue, not emitted yet)
   grows by the number of successful updates of the queue's path the step
   applies and shrinks only by the responses the stream emits for that queue
   in the step: no update is dropped and none is answered twice, whatever
   the stream was doing when the update arrived. *)
C13_NoUpdateLostOrDuplicated ==
    [][ \A sid \in StreamIds :
          (Active(streams[sid]) /\ Active(streams'[sid])) =>
              \A k \in 1..Len(streams[sid].queues) :
                  Len(Outstanding(streams'[sid], sent', k))
                     = Len(Outstanding(streams[sid], sent, k))
                         + NumUpdates(last', streams[sid].queues[k][1])
                         - NumEmittedFor(sid, k)
      ]_vars

(* what the successful items of a Set on path wrote into its signal sig, in
   the order of the request *)
RECURSIVE WrittenBySet(_, _, _, _)
WrittenBySet(items, results, path, sig) ==
    IF items = <<>>
    THEN <<>>
    ELSE (IF Head(items).path = path /\ Head(results).success
          THEN <<[sig EXCEPT !.state = Head(items).state]>> ELSE <<>>)
         \o WrittenBySet(Tail(items), Tail(results), path, sig)

(* what the call of the step wrote into the signal of path, in the order in
   which it applied its updates *)
Written(call, path) ==
    IF path \notin DOMAIN signals THEN <<>>
    ELSE IF call.op = "Set"
         THEN WrittenBySet(Items(call), Results(call), path, heap[signals[path]])
         ELSE IF path \in ProducerPaths(call) THEN <<heap'[signals[path]]>> ELSE <<>>

(* C14: for every stream and every path p it is registered on, the updates
   of p are answered in the order in which they were applied: the updates
   the stream owes for a queue form a first-in first-out sequence, a step
   appends the updates of p it applies at its end in the order it applied
   them, the response the stream emits for the queue is for the oldest of
   them, and no step inserts, reorders or removes anything behind the
   oldest.  (Nothing relates the updates of two different paths.) *)
C14_UpdatesOfAPathAnsweredInOrder ==
    [][ \A sid \in StreamIds :
          (Active(streams[sid]) /\ Active(streams'[sid])) =>
              \A k \in 1..Len(streams[sid].queues) :
                  LET before == Outstanding(streams[sid], sent, k)
                      after == Outstanding(streams'[sid], sent', k)
                      new == Written(last', streams[sid].queues[k][1])
                  IN  /\ \/ after = before \o new
                         \/ before # <<>> /\ after = Tail(before) \o new
                      /\ NumEmittedFor(sid, k) = 1 =>
                            /\ before # <<>>
                            /\ streams[sid].tasks[k].sent = Head(before)
                            /\ after = Tail(before)
      ]_vars

(* a stream is emitting the response of the older of two different updates
   of one path while it still owes the newer one *)
C14_Witness ==
    \E sid \in StreamIds :
        /\ streams[sid].pc = "yield"
        /\ \E k \in 1..Len(streams[sid].queues) :
              /\ streams[sid].task = k
              /\ Len(Outstanding(streams[sid], sent, k)) = 1
              /\ Outstanding(streams[sid], sent, k)[1] # streams[sid].tasks[k].sent

(* C15: the response a Subscribe stream emits for an update carries the
   signal as the Set (or producer update) that produced that update wrote
   it, whatever was written to the path between that update and the
   response. *)
C15_ResponseCarriesWrittenState ==
    \A sid \in StreamIds :
        (streams[sid].pc = "yield" /\ streams[sid].emitted.error_message = "") =>
            streams[sid].emitted.signal = streams[sid].tasks[streams[sid].task].sent

(* the queues the stream registered *)
QueuesOf(stream) == {stream.queues[k][2] : k \in 1..Len(stream.queues)}

(* the queues registered on some path *)
Registered(subs) == UNION {subs[p] : p \in DOMAIN subs}

(* C16: once a Subscribe stream has terminated (cancelled at the wait or at
   a yield, or ended by an error), none of the queues it registered is in
   the subscriber registry, and no later step puts anything on them. *)
C16_TerminatedStreamIsDeregistered ==
    [][ \A sid \in StreamIds :
          streams'[sid].pc = "closed" =>
              /\ QueuesOf(streams'[sid]) \cap Registered(subscribers') = {}
              /\ streams[sid].pc = "closed" =>
                    \A q \in QueuesOf(streams[sid]) : queues'[q] = queues[q]
      ]_vars

(* a stream that had registered two queues has terminated, and a Set on one
   of its paths succeeded afterwards *)
C16_Witness ==
    \E sid \in StreamIds :
        /\ streams[sid].pc = "closed"
        /\ Len(streams[sid].queues) = 2
        /\ last.op = "Set"
        /\ \E i \in 1..Len(Items(last)) :
              /\ Results(last)[i].success
              /\ \E k \in 1..2 : streams[sid].queues[k][1] = Items(last)[i].path

(* queue q is registered on path p in the registry subs *)
IsRegistered(subs, p, q) == p \in DOMAIN subs /\ q \in subs[p]

(* C17: remove_subscriber(p, c) returns without error, leaves c
   unregistered on p and every other registration (another queue of p, any
   queue of another path) as it was, and changes nothing else; when c is not
   registered on p (p unknown, c never added, or c removed by the call just
   before) the registry is unchanged, so a second removal equals one. *)
C17_RemoveSubscriberIdempotent ==
    [][ last'.op = "remove_subscriber" =>
          LET p == last'.path
              c == last'.queue
          IN  /\ last'.ret = None
              /\ ~IsRegistered(subscribers', p, c)
              /\ \A p2 \in AllPaths, c2 \in DOMAIN queues :
                    (p2 # p \/ c2 # c) =>
                        (IsRegistered(subscribers', p2, c2) <=> IsRegistered(subscribers, p2, c2))
              /\ \A p2 \in DOMAIN subscribers' : subscribers'[p2] # {}
              /\ ~IsRegistered(subscribers, p, c) => subscribers' = subscribers
              /\ (last.op = "remove_subscriber" /\ last.path = p /\ last.queue = c)
                    => subscribers' = subscribers
              /\ remove_subscriber(SNext, p, c) = SNext
              /\ UNCHANGED <<signals, heap, locks, queues>>
      ]_vars

(* remove_subscriber was called for a queue that is not registered on the
   path while another queue is, and that one is still registered *)
C17_Witness ==
    /\ last.op = "remove_subscriber"
    /\ last.path \in DOMAIN subscribers
    /\ last.queue \notin subscribers[last.path]
    /\ subscribers[last.path] # {}

(* C18: an Unsubscribe call answers success=true and changes nothing: the
   subscriber registry, the lock table, the signals, the queues and the
   streams are as before, and an update applied right after it is still
   handed to every queue registered on its path. *)
C18_UnsubscribeIsAdvisory ==
    [][ /\ last'.op = "Unsubscribe" =>
              /\ last'.response = [success |-> TRUE]
              /\ UNCHANGED <<signals, heap, locks, subscribers, queues, sent, streams>>
        /\ last.op = "Unsubscribe" =>
              \A i \in 1..Len(last.request.paths) :
                  LET p == last.request.paths[i]
                  IN  (p \in DOMAIN subscribers /\ NumUpdates(last', p) > 0) =>
                        \A q \in subscribers[p] :
                            Len(queues'[q]) = Len(queues[q]) + NumUpdates(last', p)
      ]_vars

(* Unsubscribe was called for the path of a live stream, which is still
   registered on it *)
C18_Witness ==
    /\ last.op = "Unsubscribe"
    /\ \E sid \in StreamIds, i \in 1..Len(last.request.paths) :
          /\ Active(streams[sid])
          /\ \E k \in 1..Len(streams[sid].queues) :
                /\ streams[sid].queues[k][1] = last.request.paths[i]
                /\ IsRegistered(subscribers, last.request.paths[i], streams[sid].queues[k][2])

(* the positions of the request paths that have a signal *)
Resolved(paths) == {i \in 1..Len(paths) : paths[i] \in DOMAIN signals}

(* C19: a Get call answers success=true with the signals of the requested
   paths that are registered, one for each such position of the request and
   in the order of the request, the others being skipped; signals, lock
   table, registry and queues are unchanged, and a lock on a path makes no
   difference to what is returned for it. *)
C19_GetReturnsRegisteredInOrder ==
    [][ last'.op = "Get" =>
          LET paths == last'.request.paths
              found == last'.response.signals
          IN  /\ last'.response.success
              /\ Len(found) = Cardinality(Resolved(paths))
              /\ \A i \in Resolved(paths) :
                    found[Cardinality({j \in Resolved(paths) : j <= i})] = heap[signals[paths[i]]]
              /\ UNCHANGED <<signals, heap, locks, subscribers, queues, sent, streams>>
      ]_vars

(* a Get of an unregistered path followed by a registered path that is
   locked returned that one signal *)
C19_Witness ==
    /\ last.op = "Get"
    /\ Len(last.request.paths) = 2
    /\ last.request.paths[1] \notin DOMAIN signals
    /\ last.request.paths[2] \in DOMAIN locks
    /\ last.response.signals = <<heap[signals[last.request.paths[2]]]>>

(* the result the item gets, given the lock table and the signals *)
ExpectedResult(item, token) ==
    IF item.path \in DOMAIN locks /\ (token = EmptyToken \/ locks[item.path] # token)
    THEN SetResult(item.path, FALSE, LockedMessage)
    ELSE IF item.path \notin DOMAIN signals
         THEN SetResult(item.path, FALSE, NotFoundMessage)
         ELSE SetResult(item.path, TRUE, "")

(* C20: a Set call answers top-level success=true with one result for each
   item, in the order of the request; the result of an item is the one it
   would get alone (locked, not found, or applied), and after the call the
   signal of every path holds the state of the last item on that path that
   was applied and is untouched when there is none: an item that fails
   neither stops the items after it nor undoes the items before it. *)
C20_SetItemsAreIndependent ==
    [][ last'.op = "Set" =>
          LET items == Items(last')
              results == Results(last')
          IN  /\ last'.response.success
              /\ Len(results) = Len(items)
              /\ \A i \in 1..Len(items) :
                    results[i] = ExpectedResult(items[i], last'.request.token)
              /\ \A p \in DOMAIN signals :
                    LET applied == {i \in 1..Len(items) :
                                       items[i].path = p /\ results[i].success}
                    IN  IF applied = {}
                        THEN heap'[signals[p]] = heap[signals[p]]
                        ELSE heap'[signals[p]] =
                               [heap[signals[p]] EXCEPT
                                    !.state = items[CHOOSE i \in applied :
                                                       \A j \in applied : j <= i].state]
              /\ UNCHANGED <<signals, locks, subscribers>>
      ]_vars

(* a Set of two items: the first was refused because its path is locked,
   the second was applied *)
C20_Witness ==
    /\ last.op = "Set"
    /\ Len(Items(last)) = 2
    /\ Results(last)[1] = SetResult(Items(last)[1].path, FALSE, LockedMessage)
    /\ Results(last)[2].success
    /\ heap[signals[Items(last)[2].path]].state = Items(last)[2].state


(* the positions of the items of a Set call that were applied to path p *)
AppliedOn(call, p) ==
    {i \in 1..Len(Items(call)) : Items(call)[i].path = p /\ Results(call)[i].success}

(* C21: a Get that follows a Set returns, for every path the Set applied an
   item to, a signal whose state is the state of the (last) item applied to
   that path; and the state of a signal stays what it is in every step that
   applies no update to its path, so the same holds for a Get made later
   with no write to the path in between. *)
C21_SetThenGetRoundTrip ==
    [][ /\ (last.op = "Set" /\ last'.op = "Get") =>
              LET paths == last'.request.paths
                  found == last'.response.signals
              IN  \A i \in Resolved(paths) :
                      LET applied == AppliedOn(last, paths[i])
                      IN  applied # {} =>
                            found[Cardinality({j \in Resolved(paths) : j <= i})].state
                              = Items(last)[CHOOSE a \in applied : \A b \in applied : b <= a].state
        /\ \A p \in DOMAIN signals :
              NumUpdates(last', p) = 0 =>
                  /\ p \in DOMAIN signals'
                  /\ heap'[signals'[p]].state = heap[signals[p]].state
      ]_vars

(* a Get of a path returned the state that the Set before it wrote, which
   is not the state the signal was registered with *)
C21_Witness ==
    /\ last.op = "Get"
    /\ Len(last.response.signals) = 1
    /\ last.response.signals[1].state = State(Value("float_value", 61), FALSE, FALSE)


(* the update supplies a value only: the flags of the request are not set
   (in the message a flag that is not set reads False) *)
ValueOnly(state) == ~state.capability /\ ~state.availability

(* C22: an update that supplies only a new value (a Set item whose state
   sets no flag, or a producer update) leaves the capability and the
   availability of the stored signal as they were. *)
C22_ValueUpdateKeepsFlags ==
    [][ \A p \in DOMAIN signals :
          (/\ NumUpdates(last', p) > 0
           /\ last'.op = "Set" =>
                 \A i \in AppliedOn(last', p) : ValueOnly(Items(last')[i].state))
            => /\ heap'[signals[p]].state.capability = heap[signals[p]].state.capability
               /\ heap'[signals[p]].state.availability = heap[signals[p]].state.availability
      ]_vars


(* C23: the config and the path of a signal are fixed at registration: in
   every reachable state each path registered by the CARLA client is still
   stored, and its signal carries the config and the path it was created
   with, whatever Get, Set and producer calls were made. *)
C23_ConfigAndPathFixed ==
    /\ DOMAIN signals = DOMAIN carla_signals
    /\ \A p \in DOMAIN signals :
          /\ heap[signals[p]].config = carla_signals[p].config
          /\ heap[signals[p]].path = p

(* a Set has just written a signal after a producer update had written one *)
C23_Witness ==
    /\ last.op = "Set"
    /\ \E i \in DOMAIN Results(last) : Results(last)[i].success
    /\ produced > 0
    /\ \E p \in DOMAIN signals : heap[signals[p]].state # carla_signals[p].state


(* the number of items of a Set request that name path *)
NumItemsOn(request, path) ==
    Cardinality({j \in 1..Len(request.signals) : request.signals[j].path = path})

(* C24: a slow subscriber never stalls a writer or other subscribers: in
   every reachable state, whatever number of unread updates the queues hold,
   every Set request on a registered, unlocked path and every producer
   update runs to its end in one step, stores the new state and appends one
   entry per written item to every queue registered on the path. *)
C24_SlowSubscriberNeverStallsWriter ==
    /\ \A request \in StreamSetRequests :
          LET r == Set(S, request)
          IN  \A i \in 1..Len(request.signals) :
                LET p == request.signals[i].path
                    on == {j \in 1..Len(request.signals) : request.signals[j].path = p}
                IN  (p \in DOMAIN signals /\ p \notin DOMAIN locks) =>
                      /\ r.response.results[i].success
                      /\ r.s.heap[r.s.signals[p]].state
                           = request.signals[CHOOSE a \in on : \A b \in on : b <= a].state
                      /\ \A q \in DOMAIN queues :
                            IsRegistered(subscribers, p, q) =>
                              Len(r.s.queues[q]) = Len(queues[q]) + NumItemsOn(request, p)
    /\ \A speed \in Speeds :
          LET s2 == update_vehicle_speed(S, speed)
          IN  /\ s2.heap[s2.signals["Vehicle.Speed"]].state.value = Value("float_value", speed)
              /\ \A q \in DOMAIN queues :
                    IsRegistered(subscribers, "Vehicle.Speed", q) =>
                      Len(s2.queues[q]) = Len(queues[q]) + 1

(* a Set has just written a path on which two queues are registered, one of
   them holding MaxStreamQueueLen updates nobody has read, the other fewer *)
C24_Witness ==
    /\ last.op = "Set"
    /\ \E i \in DOMAIN Results(last) :
          /\ Results(last)[i].success
          /\ \E q1, q2 \in DOMAIN queues :
                /\ q1 # q2
                /\ IsRegistered(subscribers, Results(last)[i].path, q1)
                /\ IsRegistered(subscribers, Results(last)[i].path, q2)
                /\ Len(queues[q1]) >= MaxStreamQueueLen
                /\ Len(queues[q2]) < Len(queues[q1])


(* the paths a Lock call named, and the paths it acquired *)
Requested(call) == {call.request.paths[i] : i \in 1..Len(call.request.paths)}

Acquired(call) == {call.locked_paths[i] : i \in 1..Len(call.locked_paths)}

(* C25: a path has at most one holding token at any instant and Lock RPCs
   with overlapping path sets never share a path: a Lock handler runs in one
   step under a token nobody holds, never takes a path from its holder,
   acquires exactly the requested paths that were free, leaves every
   requested path locked, and reports success only when every requested path
   was free and is now held by the returned token; of two Lock handlers run
   one after the other the second acquires no path the first one named, so
   the two never each acquire part of the other's path set. *)
C25_LocksAreExclusive ==
    [][ nextToken' # nextToken =>
          /\ last'.op = "Lock"
          /\ \A p \in DOMAIN locks : locks[p] # last'.token
          /\ last'.token \notin issued
          /\ \A p \in DOMAIN locks : p \in DOMAIN locks' /\ locks'[p] = locks[p]
          /\ DOMAIN locks' \ DOMAIN locks = Requested(last') \ DOMAIN locks
          /\ Acquired(last') = Requested(last') \ DOMAIN locks
          /\ \A p \in Acquired(last') : locks'[p] = last'.token
          /\ Requested(last') \subseteq DOMAIN locks'
          /\ last'.response.success =>
                /\ Requested(last') \cap DOMAIN locks = {}
                /\ \A p \in Requested(last') : locks'[p] = last'.response.token
                /\ \A t \in issued : \A p \in DOMAIN locks' :
                      locks'[p] = t => p \notin Requested(last')
          /\ last.op = "Lock" => Acquired(last') \cap Requested(last) = {}
          /\ \A p \in DOMAIN locks' :
                Cardinality({t \in issued' : locks'[p] = t}) <= 1
      ]_vars

(* a Lock was refused because one of its paths is held by the token of an
   earlier successful Lock, while it acquired another of its paths *)
C25_Witness ==
    /\ last.op = "Lock"
    /\ ~last.response.success
    /\ Acquired(last) # {}
    /\ \E p \in Requested(last) :
          /\ p \in DOMAIN locks
          /\ locks[p] \in issued
          /\ locks[p] # last.token


(* C26: a Lock call whose requested paths are all unlocked when it starts
   answers success with a token and leaves every requested path locked
   under that token, whatever the request list, one naming a path twice
   included. *)
C26_LockOfFreePathsSucceeds ==
    [][ (nextToken' # nextToken /\ Requested(last') \cap DOMAIN locks = {}) =>
          /\ last'.response.success
          /\ last'.response.token # EmptyToken
          /\ \A p \in Requested(last') :
                p \in DOMAIN locks' /\ locks'[p] = last'.response.token
      ]_vars

(* C27: while a path is locked, its stored state changes and its queues
   receive an update only in a Set call that presents the holding token;
   this covers the producer updates of CarlaClient as well. *)
C27_LockedPathWrittenOnlyByHolder ==
    [][ \A p \in DOMAIN locks \cap DOMAIN signals :
          (\/ heap'[signals[p]].state # heap[signals[p]].state
           \/ NumUpdates(last', p) > 0 /\ last' # last)
            => /\ last'.op = "Set"
               /\ last'.request.token = locks[p]
      ]_vars

====
